---- MODULE Spec2Model ----
(***************************************************************************)
(* repo-archiver: the interactive table of src/main.rs.                    *)
(*                                                                         *)
(* The foreground loop run_app (drain the worker's events, draw, poll and  *)
(* read one terminal event, dispatch it on the mode) and the worker thread *)
(* that start_archiving spawns, which talk over one mpsc channel.          *)
(*                                                                         *)
(* Vec indices are kept 0-based as in the source: repos, statuses and      *)
(* selected are functions over 0..len-1.  Option<usize> is <<>> for None   *)
(* and <<i>> for Some(i).  Enum values with a payload are tuples whose     *)
(* first element is the variant's name.                                    *)
(*                                                                         *)
(* main's steps before the table (run_age_picker, Age::parse,               *)
(* Age::cutoff_date, the filter and sort of fetch_repos) are specified      *)
(* each on its own (PickerSpec, AgeSpec, FetchSpec); pc and event are the   *)
(* position and the terminal event of whichever loop runs.                  *)
(*                                                                         *)
(* Left out: the spinner (tick_spinner, spinner_tick, last_tick) and the   *)
(* table's scroll offset, which only the painting reads, and the io::Error *)
(* returns of the terminal calls.                                          *)
(***************************************************************************)
EXTENDS Integers, Sequences, FiniteSets, TLC

\* Largest catalog the model explores (main only enters run_app with >= 1 repo).
MaxRepos == 3

VARIABLES
    repos,         \* App.repos: 0..len-1 -> repository name
    statuses,      \* App.statuses: 0..len-1 -> RepoStatus
    selected,      \* App.selected: 0..len-1 -> BOOLEAN
    cursor,        \* App.state.selected(): None or Some(i)
    mode,          \* App.mode: "Selecting", "ConfirmModal", "Archiving" or "Done"
    dry_run,       \* App.dry_run
    modal_button,  \* App.modal_button
    pc,            \* position of run_app: "drain", "draw", "poll", "handle", "exited"
    event,         \* the terminal event event::read() returned, while it is dispatched
    chan,          \* the mpsc channel (tx, rx): events sent and not yet received
    workers,       \* the threads start_archiving has spawned, in spawn order
    received,      \* every ArchiveResult try_recv has returned, in order
    ghlog,         \* every `gh repo archive` invocation made, with its result
    picker,        \* run_age_picker: the AgePicker
    age_arg,       \* main: args.age, the text given to Age::parse
    age,           \* what Age::parse or run_age_picker returned
    today,         \* Age::cutoff_date: Utc::now().date_naive()
    cutoff,        \* what Age::cutoff_date returned; fetch_repos: cutoff
    gh_repos,      \* fetch_repos: the list decoded from `gh repo list`
    filtered       \* fetch_repos: what the filter and the sort produced

\* What main works on before the table runs; run_app reads none of it.
main_vars == << picker, age_arg, age, today, cutoff, gh_repos, filtered >>

vars == << repos, statuses, selected, cursor, mode, dry_run, modal_button,
           pc, event, chan, workers, received, ghlog, main_vars >>

app == << repos, statuses, selected, cursor, mode, dry_run, modal_button >>

\* What the table and its thread work on.
table_vars == << app, chan, workers, received, ghlog >>

----------------------------------------------------------------------------
(* Values *)

\* Option<usize>
None == << >>
Some(i) == << i >>

\* enum RepoStatus
Idle == << "Idle" >>
Pending == << "Pending" >>
Archiving == << "Archiving" >>
Done == << "Done" >>
Failed(err) == << "Failed", err >>

\* enum ArchiveResult
StartedMsg(idx) == << "Started", idx >>
DoneMsg(idx) == << "Done", idx >>
FailedMsg(idx, err) == << "Failed", idx, err >>

\* modal_button: 0 = Cancel, 1 = Continue
Cancel == 0
Continue == 1

\* The key codes run_app distinguishes; "x" stands for every other key.
KeyCodes == { "q", "Esc", "Down", "j", "Up", "k", "Space", "Tab", "Enter",
              "Left", "h", "Right", "l", "y", "n", "x" }

\* Terminal events: key presses, a key event of another kind, a non-key event.
NoEvent == << >>
KeyEvent(code, kind) == << "Key", code, kind >>
Events == { KeyEvent(c, "Press") : c \in KeyCodes }
             \cup { KeyEvent("Enter", "Release"), << "Resize" >> }
IsPress(ev) == Len(ev) = 3 /\ ev[1] = "Key" /\ ev[3] = "Press"

\* What `gh repo archive <name> --yes` can come back with: exit status 0,
\* a non-zero exit with bytes on stderr, or a failure to run the command.
StderrBytes == { "rate limited\\xFF" }
IoErrors == { "No such file or directory (os error 2)" }
CommandResults == { << "Exit", 0, "" >> }
                    \cup { << "Exit", 1, b >> : b \in StderrBytes }
                    \cup { << "Err", e >> : e \in IoErrors }

\* String::from_utf8_lossy: invalid UTF-8 is replaced by U+FFFD.
from_utf8_lossy(bytes) ==
    IF bytes = "rate limited\\xFF" THEN "rate limited\\u{FFFD}" ELSE bytes

----------------------------------------------------------------------------
(* impl App *)

len(v) == Cardinality(DOMAIN v)

\* Mutant: the index is advanced without the modulo.
next_NoWrap(cur, n) ==
    IF n = 0 THEN cur
    ELSE IF cur # None THEN Some(cur[1] + 1) ELSE Some(0)

next(cur, n) ==
    IF n = 0 THEN cur
    ELSE IF cur # None THEN Some((cur[1] + 1) % n) ELSE Some(0)

previous(cur, n) ==
    IF n = 0 THEN cur
    ELSE IF cur # None
         THEN (IF cur[1] = 0 THEN Some(n - 1) ELSE Some(cur[1] - 1))
         ELSE Some(0)

toggle_selection(sel, cur) ==
    IF cur # None THEN [sel EXCEPT ![cur[1]] = ~ @] ELSE sel

\* Mutant: counts the rows, not the selected rows.
selected_count_Len(sel) == Cardinality(DOMAIN sel)

selected_count(sel) == Cardinality({ i \in DOMAIN sel : sel[i] })

\* Mutant: every row is marked, selected or not.
mark_selected_as_pending_All(st, sel) ==
    [ i \in DOMAIN st |-> Pending ]

\* Mutant: the test on the flag is negated.
mark_selected_as_pending_Negated(st, sel) ==
    [ i \in DOMAIN st |-> IF ~ sel[i] THEN Pending ELSE st[i] ]

mark_selected_as_pending(st, sel) ==
    [ i \in DOMAIN st |-> IF sel[i] THEN Pending ELSE st[i] ]

\* Mutant: a row that has started counts as finished.
is_all_done_Started(st, sel) ==
    \A i \in DOMAIN st : ~ sel[i] \/ st[i][1] \in { "Archiving", "Done", "Failed" }

\* Mutant: `any` instead of `all` over the selected rows.
is_all_done_Any(st, sel) ==
    \E i \in DOMAIN st : sel[i] /\ st[i][1] \in { "Done", "Failed" }

\* Mutant: the `!self.selected[i] ||` disjunct is missing.
is_all_done_AllRows(st, sel) ==
    \A i \in DOMAIN st : st[i][1] \in { "Done", "Failed" }

is_all_done(st, sel) ==
    \A i \in DOMAIN st : ~ sel[i] \/ st[i][1] \in { "Done", "Failed" }

----------------------------------------------------------------------------
(* start_archiving *)

\* repos.iter().enumerate().filter(selected).map((i, name)).collect()
RECURSIVE repos_to_archive(_, _, _)
repos_to_archive(rs, sel, i) ==
    IF i >= len(rs) THEN << >>
    ELSE (IF sel[i] THEN << << i, rs[i] >> >> ELSE << >>)
             \o repos_to_archive(rs, sel, i + 1)

\* The thread as spawned: its captured list and flag, and where it stands in
\* `for (idx, name) in repos_to_archive` (k: 1-based position in the list).
start_archiving(rs, sel, dry) ==
    LET list == repos_to_archive(rs, sel, 0) IN
    [ list |-> list, dry_run |-> dry, k |-> 1,
      at |-> IF list = << >> THEN "exit" ELSE "send_started" ]

\* Mutant: a queue that hands out the newest value first.
send_Front(ch, msg) == IF pc = "exited" THEN ch ELSE << msg >> \o ch

\* tx.send: the value is queued unless the receiver is gone (run_app returned
\* and dropped rx), in which case send returns Err, which is ignored.
send(ch, msg) == IF pc = "exited" THEN ch ELSE Append(ch, msg)

----------------------------------------------------------------------------
Init ==
    /\ \E n \in 1..MaxRepos :
          /\ repos = [ i \in 0..(n - 1) |-> << "repo", i >> ]
          /\ statuses = [ i \in 0..(n - 1) |-> Idle ]
          /\ selected = [ i \in 0..(n - 1) |-> FALSE ]
    /\ cursor = Some(0)
    /\ mode = "Selecting"
    /\ dry_run \in BOOLEAN
    /\ modal_button = Continue
    /\ pc = "drain"
    /\ event = NoEvent
    /\ chan = << >>
    /\ workers = << >>
    /\ received = << >>
    /\ ghlog = << >>
    /\ picker = << >> /\ age_arg = << >> /\ age = << >> /\ today = << >>
    /\ cutoff = << >> /\ gh_repos = << >> /\ filtered = << >>

----------------------------------------------------------------------------
(* run_app: the drain loop *)

ApplyResult(st, result) ==
    IF result[1] = "Started" THEN [st EXCEPT ![result[2]] = Archiving]
    ELSE IF result[1] = "Done" THEN [st EXCEPT ![result[2]] = Done]
    ELSE [st EXCEPT ![result[2]] = Failed(result[3])]

\* Mutant: is_all_done is tested before the event is applied.
TryRecv_CheckFirst ==
    /\ pc = "drain"
    /\ chan # << >>
    /\ mode' = IF is_all_done(statuses, selected) THEN "Done" ELSE mode
    /\ statuses' = ApplyResult(statuses, Head(chan))
    /\ chan' = Tail(chan)
    /\ received' = Append(received, Head(chan))
    /\ UNCHANGED << repos, selected, cursor, dry_run, modal_button, pc, event,
                    workers, ghlog >>
    /\ UNCHANGED main_vars

\* Mutant: the receiver hands out the newest queued event first.
TryRecv_Newest ==
    /\ pc = "drain"
    /\ chan # << >>
    /\ LET st == ApplyResult(statuses, chan[Len(chan)]) IN
          /\ statuses' = st
          /\ mode' = IF is_all_done(st, selected) THEN "Done" ELSE mode
    /\ chan' = SubSeq(chan, 1, Len(chan) - 1)
    /\ received' = Append(received, chan[Len(chan)])
    /\ UNCHANGED << repos, selected, cursor, dry_run, modal_button, pc, event,
                    workers, ghlog >>
    /\ UNCHANGED main_vars

\* One pass of `while let Ok(result) = rx.try_recv()`.
TryRecv ==
    /\ pc = "drain"
    /\ chan # << >>
    /\ LET st == ApplyResult(statuses, Head(chan)) IN
          /\ statuses' = st
          /\ mode' = IF is_all_done(st, selected) THEN "Done" ELSE mode
    /\ chan' = Tail(chan)
    /\ received' = Append(received, Head(chan))
    /\ UNCHANGED << repos, selected, cursor, dry_run, modal_button, pc, event,
                    workers, ghlog >>
    /\ UNCHANGED main_vars

\* try_recv returns Err(Empty): the while loop ends.
DrainEmpty ==
    /\ pc = "drain"
    /\ chan = << >>
    /\ pc' = "draw"
    /\ UNCHANGED << app, event, chan, workers, received, ghlog >>
    /\ UNCHANGED main_vars

\* terminal.draw(|f| ui(f, app))
Draw ==
    /\ pc = "draw"
    /\ pc' = "poll"
    /\ UNCHANGED << app, event, chan, workers, received, ghlog >>
    /\ UNCHANGED main_vars

\* event::poll(50 ms) returns false.
PollTimeout ==
    /\ pc = "poll"
    /\ pc' = "drain"
    /\ UNCHANGED << app, event, chan, workers, received, ghlog >>
    /\ UNCHANGED main_vars

\* event::poll returns true and event::read() returns the event.
ReadEvent ==
    /\ pc = "poll"
    /\ \E ev \in Events : event' = ev
    /\ pc' = "handle"
    /\ UNCHANGED << app, chan, workers, received, ghlog >>
    /\ UNCHANGED main_vars

\* Not a key event, or a key event whose kind is not Press: back to the loop top.
NotPress ==
    /\ pc = "handle"
    /\ ~ IsPress(event)
    /\ pc' = "drain"
    /\ event' = NoEvent
    /\ UNCHANGED << app, chan, workers, received, ghlog >>
    /\ UNCHANGED main_vars

----------------------------------------------------------------------------
(* run_app: match app.mode { ... match key.code { ... } } *)

KeySelecting ==
    /\ pc = "handle" /\ IsPress(event) /\ mode = "Selecting"
    /\ LET code == event[2] IN
          /\ pc' = IF code \in { "q", "Esc" } THEN "exited" ELSE "drain"
          /\ cursor' = IF code \in { "Down", "j" } THEN next(cursor, len(repos))
                       ELSE IF code \in { "Up", "k" } THEN previous(cursor, len(repos))
                       ELSE cursor
          /\ selected' = IF code \in { "Space", "Tab" }
                         THEN toggle_selection(selected, cursor)
                         ELSE selected
          /\ mode' = IF code = "Enter" /\ selected_count(selected) > 0
                     THEN "ConfirmModal"
                     ELSE mode
    /\ event' = NoEvent
    /\ UNCHANGED << repos, statuses, dry_run, modal_button, chan, workers,
                    received, ghlog >>
    /\ UNCHANGED main_vars

KeyConfirmModal ==
    /\ pc = "handle" /\ IsPress(event) /\ mode = "ConfirmModal"
    /\ LET code == event[2]
           proceed == (code = "Enter" /\ modal_button = Continue) \/ code = "y"
           back == (code = "Enter" /\ modal_button # Continue)
                      \/ code \in { "n", "Esc" }
       IN
          /\ modal_button' = IF code \in { "Left", "h" } THEN Cancel
                             ELSE IF code \in { "Right", "l" } THEN Continue
                             ELSE IF code = "Tab" THEN 1 - modal_button
                             ELSE modal_button
          /\ statuses' = IF proceed
                         THEN mark_selected_as_pending(statuses, selected)
                         ELSE statuses
          /\ mode' = IF proceed THEN "Archiving"
                     ELSE IF back THEN "Selecting"
                     ELSE mode
          /\ workers' = IF proceed
                        THEN Append(workers, start_archiving(repos, selected, dry_run))
                        ELSE workers
    /\ pc' = "drain"
    /\ event' = NoEvent
    /\ UNCHANGED << repos, selected, cursor, dry_run, chan, received, ghlog >>
    /\ UNCHANGED main_vars

\* Mutant: 'q' returns only once every spawned thread has ended.
KeyArchiving_WaitQuit ==
    /\ pc = "handle" /\ IsPress(event) /\ mode = "Archiving"
    /\ LET code == event[2] IN
          /\ pc' = IF code = "q" /\ (\A w \in 1..Len(workers) : workers[w].at = "exit")
                   THEN "exited" ELSE "drain"
          /\ cursor' = IF code \in { "Down", "j" } THEN next(cursor, len(repos))
                       ELSE IF code \in { "Up", "k" } THEN previous(cursor, len(repos))
                       ELSE cursor
    /\ event' = NoEvent
    /\ UNCHANGED << repos, statuses, selected, mode, dry_run, modal_button, chan,
                    workers, received, ghlog >>
    /\ UNCHANGED main_vars

\* Mutant: Space and Tab still toggle the row under the cursor.
KeyArchiving_Toggle ==
    /\ pc = "handle" /\ IsPress(event) /\ mode = "Archiving"
    /\ LET code == event[2] IN
          /\ pc' = IF code = "q" THEN "exited" ELSE "drain"
          /\ cursor' = IF code \in { "Down", "j" } THEN next(cursor, len(repos))
                       ELSE IF code \in { "Up", "k" } THEN previous(cursor, len(repos))
                       ELSE cursor
          /\ selected' = IF code \in { "Space", "Tab" }
                         THEN toggle_selection(selected, cursor)
                         ELSE selected
    /\ event' = NoEvent
    /\ UNCHANGED << repos, statuses, mode, dry_run, modal_button, chan,
                    workers, received, ghlog >>
    /\ UNCHANGED main_vars

\* Mutant: the 'y' shortcut of the modal is also taken while archiving.
KeyArchiving_Respawn ==
    /\ pc = "handle" /\ IsPress(event) /\ mode = "Archiving"
    /\ LET code == event[2] IN
          /\ pc' = IF code = "q" THEN "exited" ELSE "drain"
          /\ cursor' = IF code \in { "Down", "j" } THEN next(cursor, len(repos))
                       ELSE IF code \in { "Up", "k" } THEN previous(cursor, len(repos))
                       ELSE cursor
          /\ statuses' = IF code = "y"
                         THEN mark_selected_as_pending(statuses, selected)
                         ELSE statuses
          /\ workers' = IF code = "y"
                        THEN Append(workers, start_archiving(repos, selected, dry_run))
                        ELSE workers
    /\ event' = NoEvent
    /\ UNCHANGED << repos, selected, mode, dry_run, modal_button, chan,
                    received, ghlog >>
    /\ UNCHANGED main_vars

KeyArchiving ==
    /\ pc = "handle" /\ IsPress(event) /\ mode = "Archiving"
    /\ LET code == event[2] IN
          /\ pc' = IF code = "q" THEN "exited" ELSE "drain"
          /\ cursor' = IF code \in { "Down", "j" } THEN next(cursor, len(repos))
                       ELSE IF code \in { "Up", "k" } THEN previous(cursor, len(repos))
                       ELSE cursor
    /\ event' = NoEvent
    /\ UNCHANGED << repos, statuses, selected, mode, dry_run, modal_button, chan,
                    workers, received, ghlog >>
    /\ UNCHANGED main_vars

\* Mutant: Enter in Done goes back to the table instead of returning.
KeyDone_Reselect ==
    /\ pc = "handle" /\ IsPress(event) /\ mode = "Done"
    /\ pc' = IF event[2] \in { "q", "Esc" } THEN "exited" ELSE "drain"
    /\ mode' = IF event[2] = "Enter" THEN "Selecting" ELSE mode
    /\ event' = NoEvent
    /\ UNCHANGED << repos, statuses, selected, cursor, dry_run, modal_button,
                    chan, workers, received, ghlog >>
    /\ UNCHANGED main_vars

KeyDone ==
    /\ pc = "handle" /\ IsPress(event) /\ mode = "Done"
    /\ pc' = IF event[2] \in { "q", "Esc", "Enter" } THEN "exited" ELSE "drain"
    /\ event' = NoEvent
    /\ UNCHANGED << app, chan, workers, received, ghlog >>
    /\ UNCHANGED main_vars

----------------------------------------------------------------------------
(* The thread spawned by start_archiving *)

SetWorker(w, at, k) == workers' = [workers EXCEPT ![w].at = at, ![w].k = k]

\* Mutant: the thread writes the status itself instead of sending Started.
WorkerSendStarted_Direct(w) ==
    /\ workers[w].at = "send_started"
    /\ statuses' = [statuses EXCEPT ![workers[w].list[workers[w].k][1]] = Archiving]
    /\ SetWorker(w, "archive", workers[w].k)
    /\ UNCHANGED << repos, selected, cursor, mode, dry_run, modal_button,
                    pc, event, chan, received, ghlog >>
    /\ UNCHANGED main_vars

\* let _ = tx.send(ArchiveResult::Started(idx));
WorkerSendStarted(w) ==
    /\ workers[w].at = "send_started"
    /\ chan' = send(chan, StartedMsg(workers[w].list[workers[w].k][1]))
    /\ SetWorker(w, "archive", workers[w].k)
    /\ UNCHANGED << app, pc, event, received, ghlog >>
    /\ UNCHANGED main_vars

\* Mutant: the dry run still runs the command.
WorkerDryRun_Invokes(w) ==
    /\ workers[w].at = "archive"
    /\ workers[w].dry_run
    /\ ghlog' = Append(ghlog, [ idx |-> workers[w].list[workers[w].k][1],
                                name |-> workers[w].list[workers[w].k][2],
                                result |-> << "Exit", 0, "" >> ])
    /\ chan' = send(chan, DoneMsg(workers[w].list[workers[w].k][1]))
    /\ SetWorker(w, "sleep", workers[w].k)
    /\ UNCHANGED << app, pc, event, received >>
    /\ UNCHANGED main_vars

\* if dry_run { sleep(300 ms); send(Done(idx)) }
WorkerDryRun(w) ==
    /\ workers[w].at = "archive"
    /\ workers[w].dry_run
    /\ chan' = send(chan, DoneMsg(workers[w].list[workers[w].k][1]))
    /\ SetWorker(w, "sleep", workers[w].k)
    /\ UNCHANGED << app, pc, event, received, ghlog >>
    /\ UNCHANGED main_vars

ResultMsg(idx, result) ==
    IF result[1] = "Exit"
    THEN (IF result[2] = 0 THEN DoneMsg(idx)
          ELSE FailedMsg(idx, from_utf8_lossy(result[3])))
    ELSE FailedMsg(idx, result[2])

\* Mutant: a failed invocation ends the thread (an early return on error).
WorkerArchive_Abort(w) ==
    /\ workers[w].at = "archive"
    /\ ~ workers[w].dry_run
    /\ LET item == workers[w].list[workers[w].k] IN
       \E result \in CommandResults :
          /\ ghlog' = Append(ghlog, [ idx |-> item[1], name |-> item[2],
                                      result |-> result ])
          /\ chan' = send(chan, ResultMsg(item[1], result))
          /\ SetWorker(w, IF ResultMsg(item[1], result)[1] = "Failed"
                          THEN "exit" ELSE "sleep",
                       workers[w].k)
    /\ UNCHANGED << app, pc, event, received >>
    /\ UNCHANGED main_vars

\* else { let result = Command::new("gh")...output(); match result { ... } }
WorkerArchive(w) ==
    /\ workers[w].at = "archive"
    /\ ~ workers[w].dry_run
    /\ LET item == workers[w].list[workers[w].k] IN
       \E result \in CommandResults :
          /\ ghlog' = Append(ghlog, [ idx |-> item[1], name |-> item[2],
                                      result |-> result ])
          /\ chan' = send(chan, ResultMsg(item[1], result))
    /\ SetWorker(w, "sleep", workers[w].k)
    /\ UNCHANGED << app, pc, event, received >>
    /\ UNCHANGED main_vars

\* thread::sleep(100 ms), then the next item of the for loop or the thread's end.
WorkerSleep(w) ==
    /\ workers[w].at = "sleep"
    /\ SetWorker(w, IF workers[w].k = Len(workers[w].list)
                    THEN "exit" ELSE "send_started",
                 workers[w].k + 1)
    /\ UNCHANGED << app, pc, event, chan, received, ghlog >>
    /\ UNCHANGED main_vars

----------------------------------------------------------------------------
Foreground ==
    \/ TryRecv
    \/ DrainEmpty
    \/ Draw
    \/ PollTimeout
    \/ ReadEvent
    \/ NotPress
    \/ KeySelecting
    \/ KeyConfirmModal
    \/ KeyArchiving
    \/ KeyDone

Worker(w) ==
    \/ WorkerSendStarted(w)
    \/ WorkerDryRun(w)
    \/ WorkerArchive(w)
    \/ WorkerSleep(w)

Next ==
    \/ Foreground
    \/ \E w \in 1..Len(workers) : WorkerSendStarted(w)
    \/ \E w \in 1..Len(workers) : WorkerDryRun(w)
    \/ \E w \in 1..Len(workers) : WorkerArchive(w)
    \/ \E w \in 1..Len(workers) : WorkerSleep(w)

Spec == Init /\ [][Next]_vars

\* The loop keeps running until it returns (its poll times out by itself), and
\* the operating system keeps scheduling the spawned thread.
FairSpec ==
    /\ Spec
    /\ WF_vars(Foreground)
    /\ WF_vars(\E w \in 1..Len(workers) : Worker(w))

----------------------------------------------------------------------------
(* main before the table: the table's variables while it has not started *)

TableNotRun ==
    /\ repos = << >> /\ statuses = << >> /\ selected = << >>
    /\ cursor = None
    /\ mode = "Selecting"
    /\ dry_run = FALSE
    /\ modal_button = Continue
    /\ chan = << >> /\ workers = << >> /\ received = << >> /\ ghlog = << >>

\* A u32 or the magnitude of an i32 is a pair << hi, lo >> standing for
\* hi * Limb + lo, because the checker's integers stop at 2^31 - 1.
Limb == 100000

U32(n) == << n \div Limb, n % Limb >>

LessEq(a, b) == a[1] < b[1] \/ (a[1] = b[1] /\ a[2] <= b[2])

U32_MAX == << 42949, 67295 >>
I32_MAX == << 21474, 83647 >>

\* The integer a pair below 10^7 stands for.
IsSmall(a) == a[1] < 100
Small(a) == (a[1] * Limb) + a[2]

\* 2^32 - a, for a in 1 .. 2^32 - 1.
TwoPow32Minus(a) ==
    IF a[2] > 67296 THEN << 42949 - a[1] - 1, 67296 - a[2] + Limb >>
    ELSE << 42949 - a[1], 67296 - a[2] >>

\* enum Age
Months(n) == << "Months", n >>
Years(n) == << "Years", n >>

----------------------------------------------------------------------------
(* impl AgePicker, run_age_picker *)

AgePicker_new == [ value |-> 2, unit |-> "Years" ]

\* let max = match self.unit { Months => 11, Years => 10 };
max_value(unit) == IF unit = "Months" THEN 11 ELSE 10

increment(p) ==
    IF p.value < max_value(p.unit) THEN [p EXCEPT !.value = @ + 1] ELSE p

decrement(p) ==
    IF p.value > 1 THEN [p EXCEPT !.value = @ - 1] ELSE p

\* Mutant: the value is not clamped to the new unit's range.
toggle_unit_NoClamp(p) ==
    [p EXCEPT !.unit = IF p.unit = "Months" THEN "Years" ELSE "Months"]

toggle_unit(p) ==
    LET unit == IF p.unit = "Months" THEN "Years" ELSE "Months" IN
    [ unit |-> unit,
      value |-> IF p.value > max_value(unit) THEN max_value(unit) ELSE p.value ]

to_age(p) ==
    IF p.unit = "Months" THEN Months(U32(p.value)) ELSE Years(U32(p.value))

\* The key codes run_age_picker distinguishes; "x" stands for every other key.
PickerKeyCodes == { "q", "Esc", "Up", "k", "Down", "j", "Left", "Right", "h",
                    "l", "Tab", "Enter", "x" }

PickerEvents == { KeyEvent(c, "Press") : c \in PickerKeyCodes }
                   \cup { KeyEvent("Enter", "Release"), << "Resize" >> }

PickerInit ==
    /\ TableNotRun
    /\ picker = AgePicker_new
    /\ pc = "picker_draw"
    /\ event = NoEvent
    /\ age_arg = None
    /\ age = << >> /\ today = << >> /\ cutoff = << >>
    /\ gh_repos = << >> /\ filtered = << >>

\* let age = picker.to_age(); terminal.draw(...)
PickerDraw ==
    /\ pc = "picker_draw"
    /\ pc' = "picker_read"
    /\ UNCHANGED << table_vars, event, main_vars >>

\* event::read() blocks until there is an event.
PickerRead ==
    /\ pc = "picker_read"
    /\ \E ev \in PickerEvents : event' = ev
    /\ pc' = "picker_handle"
    /\ UNCHANGED << table_vars, main_vars >>

\* Not a key event, or a key event whose kind is not Press.
PickerNotPress ==
    /\ pc = "picker_handle"
    /\ ~ IsPress(event)
    /\ pc' = "picker_draw"
    /\ event' = NoEvent
    /\ UNCHANGED << table_vars, main_vars >>

\* match key.code { ... }
PickerKey ==
    /\ pc = "picker_handle"
    /\ IsPress(event)
    /\ LET code == event[2] IN
          /\ pc' = IF code \in { "q", "Esc", "Enter" }
                   THEN "picker_done" ELSE "picker_draw"
          /\ age' = IF code \in { "q", "Esc" } THEN None
                    ELSE IF code = "Enter" THEN Some(to_age(picker))
                    ELSE age
          /\ picker' = IF code \in { "Up", "k" } THEN increment(picker)
                       ELSE IF code \in { "Down", "j" } THEN decrement(picker)
                       ELSE IF code \in { "Left", "Right", "h", "l", "Tab" }
                            THEN toggle_unit(picker)
                       ELSE picker
    /\ event' = NoEvent
    /\ UNCHANGED << table_vars, age_arg, today, cutoff, gh_repos, filtered >>

PickerNext ==
    \/ PickerDraw
    \/ PickerRead
    \/ PickerNotPress
    \/ PickerKey

PickerSpec == PickerInit /\ [][PickerNext]_vars

----------------------------------------------------------------------------
(* Age::parse, Age::cutoff_date *)

\* A string is the sequence of its characters.
Digits == << "0", "1", "2", "3", "4", "5", "6", "7", "8", "9" >>

IsDigit(c) == \E i \in 1..10 : Digits[i] = c

to_digit(c) == (CHOOSE i \in 1..10 : Digits[i] = c) - 1

\* char::len_utf8: the accented letter takes two bytes, the others one.
len_utf8(c) == IF c = "é" THEN 2 ELSE 1

is_whitespace(c) == c = " "

char_to_lowercase(c) == IF c = "Y" THEN "y" ELSE IF c = "M" THEN "m" ELSE c

RECURSIVE trim_start(_)
trim_start(s) ==
    IF s # << >> /\ is_whitespace(Head(s)) THEN trim_start(Tail(s)) ELSE s

RECURSIVE trim_end(_)
trim_end(s) ==
    IF s # << >> /\ is_whitespace(s[Len(s)])
    THEN trim_end(SubSeq(s, 1, Len(s) - 1)) ELSE s

trim(s) == trim_end(trim_start(s))

to_lowercase(s) ==
    IF s = << >> THEN << >> ELSE [i \in 1..Len(s) |-> char_to_lowercase(s[i])]

\* str::len: the length in bytes.
RECURSIVE str_len(_)
str_len(s) == IF s = << >> THEN 0 ELSE len_utf8(Head(s)) + str_len(Tail(s))

is_char_boundary(s, idx) == \E k \in 0..Len(s) : str_len(SubSeq(s, 1, k)) = idx

\* str::split_at panics when mid is not on a character boundary.
split_at(s, mid) ==
    IF is_char_boundary(s, mid)
    THEN LET k == CHOOSE k \in 0..Len(s) : str_len(SubSeq(s, 1, k)) = mid IN
         << "Ok", SubSeq(s, 1, k), SubSeq(s, k + 1, Len(s)) >>
    ELSE << "Panic" >>

\* The digit loop of u32::from_str: result * 10 + digit, checked.
RECURSIVE parse_digits(_, _)
parse_digits(s, acc) ==
    IF s = << >> THEN << "Ok", acc >>
    ELSE IF ~ IsDigit(Head(s)) THEN << "Err", "InvalidDigit" >>
    ELSE LET lo == acc[2] * 10 + to_digit(Head(s))
             v == << (acc[1] * 10) + (lo \div Limb), lo % Limb >> IN
         IF ~ LessEq(v, U32_MAX) THEN << "Err", "PosOverflow" >>
         ELSE parse_digits(Tail(s), v)

\* num_str.parse::<u32>(): one leading '+' is accepted, '-' is not.
parse_u32(s) ==
    IF s = << >> THEN << "Err", "Empty" >>
    ELSE IF Len(s) = 1 /\ s[1] \in { "+", "-" } THEN << "Err", "InvalidDigit" >>
    ELSE IF s[1] = "+" THEN parse_digits(Tail(s), U32(0))
    ELSE parse_digits(s, U32(0))

\* Age::parse
parse(str) ==
    LET s == to_lowercase(trim(str)) IN
    IF s = << >> THEN << "Err", "Age cannot be empty" >>
    ELSE LET sp == split_at(s, str_len(s) - 1) IN
         IF sp[1] = "Panic" THEN << "Panic" >>
         ELSE LET num == parse_u32(sp[2])
                  unit == sp[3] IN
              IF num[1] = "Err" THEN << "Err", "Invalid number in age" >>
              ELSE IF unit = << "y" >> THEN << "Ok", Years(num[2]) >>
              ELSE IF unit = << "m" >> THEN << "Ok", Months(num[2]) >>
              ELSE << "Err", "Invalid age unit" >>

\* A NaiveDate is << year, month, day >>; chrono holds these years.
MIN_YEAR == -262143
MAX_YEAR == 262142

is_leap_year(y) == y % 4 = 0 /\ (y % 100 # 0 \/ y % 400 = 0)

days_in_month(y, m) ==
    IF m = 2 THEN (IF is_leap_year(y) THEN 29 ELSE 28)
    ELSE IF m \in { 4, 6, 9, 11 } THEN 30
    ELSE 31

from_ymd_opt(y, m, d) ==
    IF y < MIN_YEAR \/ y > MAX_YEAR \/ d > days_in_month(y, m) THEN None
    ELSE Some(<< y, m, d >>)

\* NaiveDate::with_year
with_year(date, y) == from_ymd_opt(y, date[2], date[3])

unwrap_or(opt, default) == IF opt = None THEN default ELSE opt[1]

\* NaiveDate::checked_sub_months; the day is clamped to the month's length.
\* 10^7 months or more before any date chrono holds is below MIN_YEAR.
checked_sub_months(date, m) ==
    IF m = U32(0) THEN Some(date)
    ELSE IF ~ LessEq(m, I32_MAX) THEN None
    ELSE IF ~ IsSmall(m) THEN None
    ELSE LET months == (date[1] * 12) + date[2] - 1 - Small(m)
             year == months \div 12
             month == (months % 12) + 1
             day == IF date[3] > days_in_month(year, month)
                    THEN days_in_month(year, month) ELSE date[3] IN
         from_ymd_opt(year, month, day)

\* today.year() - y as i32: the outcomes of the cast and of the i32
\* subtraction.  "Below" and "Above" are differences outside chrono's years;
\* "Overflow" is a difference above i32::MAX.
year_minus(year, y) ==
    IF LessEq(y, I32_MAX)
    THEN IF IsSmall(y) THEN << "Is", year - Small(y) >> ELSE << "Below" >>
    ELSE LET w == TwoPow32Minus(y) IN
         IF IsSmall(w) THEN << "Is", year + Small(w) >>
         ELSE IF LessEq(w, << I32_MAX[1], I32_MAX[2] - year >>) THEN << "Above" >>
         ELSE << "Overflow" >>

\* Age::cutoff_date: the set of its outcomes for today = now.  The i32
\* subtraction that overflows panics in a build with overflow checks and
\* wraps to a year below MIN_YEAR in a build without them.
cutoff_date(a, now) ==
    IF a[1] = "Years"
    THEN LET y == year_minus(now[1], a[2]) IN
         IF y[1] = "Is" THEN { << "Ok", unwrap_or(with_year(now, y[2]), now) >> }
         ELSE IF y[1] = "Overflow" THEN { << "Panic" >>, << "Ok", now >> }
         ELSE { << "Ok", now >> }
    ELSE LET d == checked_sub_months(now, a[2]) IN
         IF d = None THEN { << "Panic" >> } ELSE { << "Ok", d[1] >> }

\* The characters of the --age values tried, and the longest value made of
\* every combination of them.
AgeChars == { "0", "1", "2", "9", "y", "m", "Y", "d", " ", "é", "+", "-" }
MaxTokenLen == 3

ShortTokens == UNION { [1..n -> AgeChars] : n \in 0..MaxTokenLen }

LongTokens ==
    { << "4", "2", "9", "4", "9", "6", "7", "2", "9", "5", "y" >>,
      << "4", "2", "9", "4", "9", "6", "7", "2", "9", "6", "y" >>,
      << "2", "1", "4", "7", "4", "8", "3", "6", "4", "8", "y" >>,
      << "2", "1", "4", "7", "4", "8", "3", "6", "4", "7", "y" >>,
      << "3", "0", "0", "0", "0", "0", "0", "y" >>,
      << "4", "2", "9", "4", "9", "6", "7", "2", "9", "5", "m" >>,
      << "9", "9", "9", "9", "9", "9", "9", "m" >>,
      << "2", "4", "0", "0", "m" >>,
      << " ", "+", "1", "0", "Y", " " >> }

Tokens == ShortTokens \cup LongTokens

\* The dates Utc::now().date_naive() returns in the runs tried.
Todays == { << 2024, 2, 29 >>, << 2025, 3, 31 >>, << 2026, 11, 5 >>,
            << 2000, 1, 1 >> }

\* main with --age given; age holds the Result of Age::parse.
AgeInit ==
    /\ TableNotRun
    /\ age_arg \in { Some(t) : t \in Tokens }
    /\ today \in Todays
    /\ pc = "parse"
    /\ event = NoEvent
    /\ picker = << >> /\ age = << >> /\ cutoff = << >>
    /\ gh_repos = << >> /\ filtered = << >>

\* let age = Age::parse(age_str)?;
AgeParse ==
    /\ pc = "parse"
    /\ age' = parse(age_arg[1])
    /\ pc' = IF age'[1] = "Panic" THEN "parse_panicked"
             ELSE IF age'[1] = "Err" THEN "main_err"
             ELSE "cutoff_date"
    /\ UNCHANGED << table_vars, event, picker, age_arg, today, cutoff,
                    gh_repos, filtered >>

\* let cutoff = age.cutoff_date();
CutoffDate ==
    /\ pc = "cutoff_date"
    /\ \E o \in cutoff_date(age[2], today) :
          IF o[1] = "Panic"
          THEN pc' = "cutoff_panicked" /\ cutoff' = cutoff
          ELSE pc' = "gh_repo_list" /\ cutoff' = o[2]
    /\ UNCHANGED << table_vars, event, picker, age_arg, age, today,
                    gh_repos, filtered >>

AgeNext ==
    \/ AgeParse
    \/ CutoffDate

AgeSpec == AgeInit /\ [][AgeNext]_vars

----------------------------------------------------------------------------
(* fetch_repos: the filter and the sort *)

\* The characters of the createdAt values tried, in ascending byte order.
ByteOrder == << "-", "0", "1", "2", "3", "4", "5", "6", "7", "8", "9", ":",
                "T", "Z" >>

byte_rank(c) == CHOOSE i \in 1..Len(ByteOrder) : ByteOrder[i] = c

\* String::cmp: lexicographic on bytes.
RECURSIVE str_cmp(_, _)
str_cmp(a, b) ==
    IF a = << >> /\ b = << >> THEN "Equal"
    ELSE IF a = << >> THEN "Less"
    ELSE IF b = << >> THEN "Greater"
    ELSE IF byte_rank(Head(a)) < byte_rank(Head(b)) THEN "Less"
    ELSE IF byte_rank(Head(a)) > byte_rank(Head(b)) THEN "Greater"
    ELSE str_cmp(Tail(a), Tail(b))

\* &s[..n] panics when n is past the end or not on a character boundary.
slice_to(s, n) ==
    IF n > str_len(s) \/ ~ is_char_boundary(s, n) THEN << "Panic" >>
    ELSE << "Ok", split_at(s, n)[2] >>

\* NaiveDate::parse_from_str(s, "%Y-%m-%d") on a 10-byte slice of the values
\* tried: four digits, '-', two digits, '-', two digits, naming a real date.
parse_from_str(s) ==
    IF /\ Len(s) = 10
       /\ s[5] = "-" /\ s[8] = "-"
       /\ \A i \in { 1, 2, 3, 4, 6, 7, 9, 10 } : IsDigit(s[i])
    THEN LET y == (to_digit(s[1]) * 1000) + (to_digit(s[2]) * 100)
                     + (to_digit(s[3]) * 10) + to_digit(s[4])
             m == (to_digit(s[6]) * 10) + to_digit(s[7])
             d == (to_digit(s[9]) * 10) + to_digit(s[10]) IN
         IF m \in 1..12 /\ d >= 1 THEN from_ymd_opt(y, m, d) ELSE None
    ELSE None

\* NaiveDate's ordering.
date_lt(d, e) ==
    \/ d[1] < e[1]
    \/ d[1] = e[1] /\ d[2] < e[2]
    \/ d[1] = e[1] /\ d[2] = e[2] /\ d[3] < e[3]

\* The closure of the filter: << "Ok", keep >> or << "Panic" >>.
keeps(r, cut) ==
    LET created == slice_to(r.created_at, 10) IN
    IF created[1] = "Panic" THEN << "Panic" >>
    ELSE LET d == parse_from_str(created[2]) IN
         << "Ok", IF d = None THEN FALSE ELSE date_lt(d[1], cut) >>

\* repos.into_iter().filter(...).collect()
RECURSIVE filter(_, _)
filter(rs, cut) ==
    IF rs = << >> THEN << "Ok", << >> >>
    ELSE LET k == keeps(Head(rs), cut)
             rest == filter(Tail(rs), cut) IN
         IF k[1] = "Panic" \/ rest[1] = "Panic" THEN << "Panic" >>
         ELSE << "Ok", IF k[2] THEN << Head(rs) >> \o rest[2] ELSE rest[2] >>

\* x placed after every element that does not compare greater than it.
RECURSIVE insert_sorted(_, _)
insert_sorted(x, rs) ==
    IF rs = << >> THEN << x >>
    ELSE IF str_cmp(Head(rs).created_at, x.created_at) = "Greater"
         THEN << x >> \o rs
         ELSE << Head(rs) >> \o insert_sorted(x, Tail(rs))

\* filtered.sort_by(|a, b| a.created_at.cmp(&b.created_at)): a stable sort.
RECURSIVE sort_by(_)
sort_by(rs) ==
    IF rs = << >> THEN << >>
    ELSE insert_sorted(rs[Len(rs)], sort_by(SubSeq(rs, 1, Len(rs) - 1)))

\* The createdAt values tried.
OnDay1 == << "2", "0", "1", "5", "-", "0", "3", "-", "0", "1" >>
OnDay2 == << "2", "0", "1", "8", "-", "0", "6", "-", "1", "5" >>
OnDay3 == << "2", "0", "2", "2", "-", "0", "1", "-", "0", "1" >>
NoSuchMonth == << "2", "0", "1", "5", "-", "1", "3", "-", "0", "1" >>
YearOnly == << "2", "0", "1", "5" >>
AtEight == << "T", "0", "8", ":", "0", "0", ":", "0", "0", "Z" >>
AtNine == << "T", "0", "9", ":", "0", "0", ":", "0", "0", "Z" >>

CreatedAts == { OnDay1 \o AtNine, OnDay1 \o AtEight, OnDay2 \o AtEight,
                OnDay3 \o AtEight, NoSuchMonth \o AtEight, YearOnly }

\* The cutoffs tried, and the longest list gh returns in the runs tried.
Cutoffs == { << 2018, 6, 15 >>, << 2024, 1, 1 >> }
MaxRaw == 3

\* The list deserialized from gh's output; name is the item's position.
RawLists ==
    UNION { { [i \in 1..n |-> [ name |-> i, created_at |-> f[i] ]] :
                f \in [1..n -> CreatedAts] } : n \in 0..MaxRaw }

FetchInit ==
    /\ TableNotRun
    /\ cutoff \in Cutoffs
    /\ gh_repos \in RawLists
    /\ pc = "filter"
    /\ event = NoEvent
    /\ picker = << >> /\ age_arg = << >> /\ age = << >> /\ today = << >>
    /\ filtered = << >>

\* let mut filtered = ...; filtered.sort_by(...); Ok(filtered)
FetchRepos ==
    /\ pc = "filter"
    /\ LET f == filter(gh_repos, cutoff) IN
          IF f[1] = "Panic"
          THEN pc' = "filter_panicked" /\ filtered' = filtered
          ELSE pc' = "fetched" /\ filtered' = sort_by(f[2])
    /\ UNCHANGED << table_vars, event, picker, age_arg, age, today, cutoff,
                    gh_repos >>

FetchNext == FetchRepos

FetchSpec == FetchInit /\ [][FetchNext]_vars

----------------------------------------------------------------------------
(* Properties *)

\* The stage of a status: Idle 0, Pending 1, Archiving 2, Done and Failed 3.
Stage(s) ==
    CASE s[1] = "Idle" -> 0
      [] s[1] = "Pending" -> 1
      [] s[1] = "Archiving" -> 2
      [] OTHER -> 3

IsTerminal(s) == s[1] \in { "Done", "Failed" }

NumSelected == Cardinality({ i \in DOMAIN selected : selected[i] })

\* The foreground loop dispatches a press of one of `codes` in this step.
Pressing(codes) ==
    /\ pc = "handle"
    /\ pc' # "handle"
    /\ Len(event) = 3 /\ event[1] = "Key" /\ event[3] = "Press"
    /\ event[2] \in codes

\* The indices some worker has captured.
Captured ==
    UNION { { workers[w].list[k][1] : k \in 1..Len(workers[w].list) } :
            w \in 1..Len(workers) }

\* C1: in every step, each item's status stays as it is or moves to the next
\* stage of Idle -> Pending -> Archiving -> {Done | Failed}; a Done or Failed
\* status never changes again.
C1_StatusOnlyForward ==
    [][ \A i \in DOMAIN statuses :
           /\ Stage(statuses'[i]) \in { Stage(statuses[i]), Stage(statuses[i]) + 1 }
           /\ IsTerminal(statuses[i]) => statuses'[i] = statuses[i] ]_vars

C1_Witness ==
    /\ \E i \in DOMAIN statuses : statuses[i] = Done
    /\ \E i \in DOMAIN statuses : statuses[i][1] = "Failed"
    /\ \E i \in DOMAIN statuses : statuses[i] = Idle

\* C2: whenever the mode is ConfirmModal at least one item is selected, and a
\* press of Enter in Selecting with nothing selected leaves the mode Selecting.
C2_ConfirmNeedsSelection ==
    /\ [](mode = "ConfirmModal" => NumSelected > 0)
    /\ [][ (Pressing({ "Enter" }) /\ mode = "Selecting" /\ NumSelected = 0)
              => mode' = "Selecting" ]_vars

C2_Witness ==
    /\ mode = "ConfirmModal"
    /\ NumSelected = 1
    /\ len(selected) > 1

\* C3: accepting Continue in ConfirmModal (Enter with Continue highlighted, or
\* 'y') moves the mode to Archiving and leaves every selected item Pending.
C3_ProceedMarksPending ==
    [][ ( /\ mode = "ConfirmModal"
          /\ \/ Pressing({ "y" })
             \/ Pressing({ "Enter" }) /\ modal_button = 1 )
        => ( /\ mode' = "Archiving"
             /\ selected' = selected
             /\ \A i \in DOMAIN selected : selected[i] => statuses'[i] = Pending ) ]_vars

C3_Witness ==
    /\ mode = "Archiving"
    /\ received = << >> /\ chan = << >>
    /\ NumSelected = 2
    /\ len(selected) = 3
    /\ \A i \in DOMAIN selected :
          statuses[i] = IF selected[i] THEN Pending ELSE Idle

\* C4: every step that takes the mode from Selecting to ConfirmModal leaves
\* Continue highlighted.
C4_ModalOpensOnContinue ==
    [][ (mode = "Selecting" /\ mode' = "ConfirmModal") => modal_button' = 1 ]_vars

\* C5: in a state that is painted (the drain loop has ended), if every captured
\* item is Done or Failed then the mode is Done.
C5_FinishedBeforePaint ==
    ( /\ pc \in { "draw", "poll", "handle" }
      /\ Captured # { }
      /\ \A i \in Captured : IsTerminal(statuses[i]) )
    => mode = "Done"

C5_Witness ==
    /\ pc = "draw"
    /\ mode = "Done"
    /\ Cardinality(Captured) >= 2
    /\ \A i \in Captured : IsTerminal(statuses[i])

\* C6: what the worker has produced (received, then still queued) and what the
\* loop has received is, item by item in catalog index order of the captured
\* items, one Started followed by one Done or Failed of the same item; the
\* archive invocations are made in that order too, and once the thread has
\* ended and the channel is drained no event is missing.
InBatchOrder(list, evs) ==
    /\ Len(evs) <= 2 * Len(list)
    /\ \A p \in 1..Len(evs) :
          LET idx == list[(p + 1) \div 2][1] IN
          IF p % 2 = 1
          THEN evs[p] = << "Started", idx >>
          ELSE evs[p][1] \in { "Done", "Failed" } /\ evs[p][2] = idx

C6_EventsInBatchOrder ==
    IF workers = << >>
    THEN received = << >> /\ chan = << >>
    ELSE LET list == workers[1].list IN
         /\ \A k \in 1..Len(list) : selected[list[k][1]]
         /\ \A k \in 1..(Len(list) - 1) : list[k][1] < list[k + 1][1]
         /\ InBatchOrder(list, received \o chan)
         /\ InBatchOrder(list, received)
         /\ \A k \in 1..Len(ghlog) : ghlog[k].idx = list[k][1]
         /\ (workers[1].at = "exit" /\ chan = << >> /\ pc # "exited")
               => Len(received) = 2 * Len(list)

C6_Witness ==
    /\ workers # << >>
    /\ Len(workers[1].list) = 3
    /\ Len(received) = 6
    /\ received[2][1] = "Failed"
    /\ received[4][1] = "Done"

\* C7: a failed archive action (non-zero exit, or the command could not be run)
\* does not end the session and does not stop the batch: the loop returns only
\* on a key press; the failed item's status, once terminal, is Failed with the
\* diagnostic text (stderr decoded, or the error's description); and unless the
\* user quits, every captured item goes on to a terminal status.
InvocationFailed(e) == e.result[1] = "Err" \/ e.result[2] # 0

DiagnosticOf(e) ==
    IF e.result[1] = "Err" THEN e.result[2]
    ELSE IF e.result[3] = "rate limited\\xFF" THEN "rate limited\\u{FFFD}"
    ELSE e.result[3]

FailuresRecorded ==
    \A k \in 1..Len(ghlog) :
       (InvocationFailed(ghlog[k]) /\ IsTerminal(statuses[ghlog[k].idx]))
          => statuses[ghlog[k].idx] = << "Failed", DiagnosticOf(ghlog[k]) >>

C7_FailureDoesNotAbortBatch ==
    /\ [][ (pc' = "exited" /\ pc # "exited") => Pressing({ "q", "Esc", "Enter" }) ]_vars
    /\ []FailuresRecorded
    /\ (\E k \in 1..Len(ghlog) : InvocationFailed(ghlog[k]))
          ~> ( \/ pc = "exited"
               \/ /\ \A i \in Captured : IsTerminal(statuses[i])
                  /\ \A k \in 1..Len(ghlog) :
                        InvocationFailed(ghlog[k])
                           => statuses[ghlog[k].idx]
                                 = << "Failed", DiagnosticOf(ghlog[k]) >> )

C7_Witness ==
    /\ pc # "exited"
    /\ Len(ghlog) = 3
    /\ ghlog[1].result[1] = "Exit" /\ ghlog[1].result[2] = 0
    /\ ghlog[2].result = << "Exit", 1, "rate limited\\xFF" >>
    /\ statuses[ghlog[1].idx] = Done
    /\ statuses[ghlog[2].idx] = << "Failed", "rate limited\\u{FFFD}" >>
    /\ IsTerminal(statuses[ghlog[3].idx])

\* C8: start_archiving runs at most once, so at most one thread is ever
\* spawned, and the mode never leaves {Archiving, Done} once it is there.
C8_AtMostOneWorker ==
    /\ [](Len(workers) <= 1)
    /\ [][ (mode \in { "Archiving", "Done" }) => (mode' \in { "Archiving", "Done" }) ]_vars

C8_Witness ==
    /\ Len(workers) = 1
    /\ workers[1].at = "exit"
    /\ mode = "Done"
    /\ pc = "poll"

\* C9: a step changes a selected flag only when it dispatches a press of Space
\* or Tab in Selecting, and then only the flag of the row under the cursor; the
\* flag of an item whose status is not Idle never changes.
C9_SelectionOnlyToggledInSelecting ==
    [][ /\ DOMAIN selected' = DOMAIN selected
        /\ selected' # selected
              => ( /\ Pressing({ "Space", "Tab" })
                   /\ mode = "Selecting"
                   /\ cursor # << >>
                   /\ \A i \in DOMAIN selected :
                         i # cursor[1] => selected'[i] = selected[i] )
        /\ \A i \in DOMAIN selected :
              statuses[i] # << "Idle" >> => selected'[i] = selected[i] ]_vars

C9_Witness ==
    /\ mode = "Archiving"
    /\ pc = "handle"
    /\ event = << "Key", "Space", "Press" >>
    /\ cursor # << >> /\ ~ selected[cursor[1]]
    /\ NumSelected = 2

\* C10: in Archiving and Done a dispatched terminal event leaves the statuses,
\* the flags, the mode and every captured list as they are (and in Done the
\* cursor too); a status changes only when the drain loop applies the channel's
\* head, and only for that event's item; a step of a spawned thread leaves the
\* catalog, the statuses, the flags, the cursor and the mode as they are.
C10_StatusesOnlyByDrainedEvents ==
    [][ /\ (pc = "handle" /\ pc' # "handle" /\ mode \in { "Archiving", "Done" })
              => ( /\ statuses' = statuses
                   /\ selected' = selected
                   /\ repos' = repos
                   /\ mode' = mode
                   /\ workers' = workers
                   /\ mode = "Done" => cursor' = cursor )
        /\ (statuses' # statuses /\ mode \in { "Archiving", "Done" })
              => ( /\ pc = "drain"
                   /\ chan # << >>
                   /\ chan' = Tail(chan)
                   /\ \A i \in DOMAIN statuses :
                         i # Head(chan)[2] => statuses'[i] = statuses[i] )
        /\ (Len(workers') = Len(workers) /\ workers' # workers)
              => ( /\ repos' = repos
                   /\ statuses' = statuses
                   /\ selected' = selected
                   /\ cursor' = cursor
                   /\ mode' = mode
                   /\ \A w \in 1..Len(workers) : workers'[w].list = workers[w].list )
      ]_vars

C10_Witness ==
    /\ mode = "Archiving"
    /\ pc = "handle"
    /\ event = << "Key", "y", "Press" >>
    /\ chan # << >>
    /\ \E i \in DOMAIN statuses : statuses[i] = << "Archiving" >>
    /\ \E i \in DOMAIN statuses : statuses[i] = << "Pending" >>

\* C11: a press of 'q' dispatched in Archiving makes run_app return in that
\* step, whatever the thread's position and the items' statuses, and the step
\* touches neither the thread nor the channel.
C11_QuitWhileArchivingIsImmediate ==
    [][ (Pressing({ "q" }) /\ mode = "Archiving")
           => ( /\ pc' = "exited"
                /\ workers' = workers
                /\ chan' = chan
                /\ statuses' = statuses ) ]_vars

C11_Witness ==
    /\ pc = "exited"
    /\ mode = "Archiving"
    /\ workers # << >> /\ workers[1].at = "archive"
    /\ \E i \in DOMAIN statuses : statuses[i] = << "Pending" >>
    /\ \E i \in DOMAIN statuses : statuses[i] = << "Archiving" >>

\* C12: the mode changes only along Selecting -> ConfirmModal, ConfirmModal ->
\* Selecting, ConfirmModal -> Archiving and Archiving -> Done, and whenever the
\* mode is Done the captured items are the selected ones and each is Done or
\* Failed.
ModeEdges ==
    { << "Selecting", "ConfirmModal" >>, << "ConfirmModal", "Selecting" >>,
      << "ConfirmModal", "Archiving" >>, << "Archiving", "Done" >> }

C12_ModeEdges ==
    /\ [][ mode' # mode => << mode, mode' >> \in ModeEdges ]_vars
    /\ [](mode = "Done"
            => ( /\ Captured # { }
                 /\ Captured = { i \in DOMAIN selected : selected[i] }
                 /\ \A i \in Captured : IsTerminal(statuses[i]) ))

C12_Witness ==
    /\ mode = "Done"
    /\ modal_button = 0
    /\ \E i \in DOMAIN statuses : statuses[i] = << "Idle" >>
    /\ \E i \in DOMAIN statuses : statuses[i] = << "Done" >>
    /\ \E i \in DOMAIN statuses : statuses[i][1] = "Failed"

\* C13: with the loop and the thread scheduled fairly and every archive
\* invocation returning, a session in Archiving reaches Done unless the user
\* quits.
C13_ArchivingReachesDone ==
    (mode = "Archiving") ~> (mode = "Done" \/ pc = "exited")

C13_Witness ==
    /\ mode = "Done"
    /\ pc = "poll"
    /\ ~ dry_run
    /\ Cardinality(Captured) = 2
    /\ len(repos) = 3
    /\ \E i \in Captured : statuses[i][1] = "Failed"

\* C14: the cursor is always Some(i) with i a row of the (non-empty) catalog;
\* a dispatched Down or j moves it to (i + 1) mod n and a dispatched Up or k to
\* (i - 1) mod n, so n-1 wraps to 0 and 0 wraps to n-1; it is None only for an
\* empty catalog.
C14_CursorWraps ==
    /\ [](/\ cursor = << >> <=> DOMAIN repos = { }
          /\ cursor # << >> => cursor[1] \in DOMAIN repos)
    /\ [][ (Pressing({ "Down", "j" }) /\ mode \in { "Selecting", "Archiving" })
              => cursor' = << (cursor[1] + 1) % Cardinality(DOMAIN repos) >> ]_vars
    /\ [][ (Pressing({ "Up", "k" }) /\ mode \in { "Selecting", "Archiving" })
              => cursor' = << (cursor[1] + Cardinality(DOMAIN repos) - 1)
                                 % Cardinality(DOMAIN repos) >> ]_vars

C14_Witness ==
    /\ Cardinality(DOMAIN repos) = 3
    /\ cursor = << 2 >>
    /\ pc = "handle"
    /\ event = << "Key", "Down", "Press" >>
    /\ mode = "Archiving"

\* C20: in a dry run no archive command is ever run, the thread produces only
\* Started and Done events, no status is Failed, and once the thread has ended
\* and the channel is drained every captured item is Done.
C20_DryRunInvokesNothing ==
    dry_run
       => ( /\ ghlog = << >>
            /\ \A p \in 1..Len(received \o chan) :
                  (received \o chan)[p][1] \in { "Started", "Done" }
            /\ \A i \in DOMAIN statuses : statuses[i][1] # "Failed"
            /\ (workers # << >> /\ workers[1].at = "exit" /\ chan = << >>
                   /\ pc # "exited")
                  => \A i \in Captured : statuses[i] = << "Done" >> )

C20_Witness ==
    /\ dry_run
    /\ mode = "Done"
    /\ Cardinality(Captured) = 2
    /\ \A i \in Captured : statuses[i] = << "Done" >>

\* C15: from (2, Years), whatever keys are pressed, the picker's value is in
\* 1..11 when the unit is Months and in 1..10 when it is Years; a step that
\* changes the unit leaves the value at the smaller of the old value and the
\* new unit's maximum, so it never raises it and only lowers it when it was
\* above that maximum.
C15_PickerInRange ==
    /\ [](/\ picker.unit \in { "Months", "Years" }
          /\ picker.value >= 1
          /\ picker.unit = "Months" => picker.value <= 11
          /\ picker.unit = "Years" => picker.value <= 10)
    /\ [][ picker'.unit # picker.unit
              => LET max == IF picker'.unit = "Months" THEN 11 ELSE 10 IN
                 picker'.value = IF picker.value > max THEN max ELSE picker.value ]_vars

C15_Witness ==
    /\ picker = [ value |-> 11, unit |-> "Months" ]
    /\ pc = "picker_handle"
    /\ event = << "Key", "Tab", "Press" >>

\* The --age values that are a magnitude followed by a unit: after trimming,
\* an optional '+', one or more decimal digits, then y or m in either case.
WellFormedToken(t) ==
    \E i \in 1..Len(t), j \in 1..Len(t) :
       /\ i < j
       /\ \A k \in 1..(i - 1) : t[k] = " "
       /\ \A k \in (j + 1)..Len(t) : t[k] = " "
       /\ t[j] \in { "y", "Y", "m", "M" }
       /\ \/ \A k \in i..(j - 1) : t[k] \in { Digits[d] : d \in 1..10 }
          \/ /\ t[i] = "+"
             /\ i + 1 < j
             /\ \A k \in (i + 1)..(j - 1) : t[k] \in { Digits[d] : d \in 1..10 }

\* C16: for every invalid age token (empty, non-numeric magnitude or
\* unrecognised unit, the last character of any width), Age::parse returns
\* an error value and does not panic.
C16_InvalidTokenIsError ==
    (pc # "parse" /\ ~ WellFormedToken(age_arg[1])) => (age[1] = "Err")

Before(d, e) ==
    \/ d[1] < e[1]
    \/ d[1] = e[1] /\ d[2] < e[2]
    \/ d[1] = e[1] /\ d[2] = e[2] /\ d[3] < e[3]

\* C17: for every age token that Age::parse accepts and every current date,
\* cutoff_date returns a date strictly before the current date.
C17_CutoffBeforeToday ==
    (pc \notin { "parse", "cutoff_date" } /\ age[1] = "Ok")
       => (pc = "gh_repo_list" /\ Before(cutoff, today))

\* The calendar date a createdAt value starts with, if it starts with one.
CreationDate(s) ==
    IF /\ Len(s) >= 10
       /\ s[5] = "-" /\ s[8] = "-"
       /\ \A i \in { 1, 2, 3, 4, 6, 7, 9, 10 } : s[i] \in { Digits[d] : d \in 1..10 }
    THEN LET N(c) == (CHOOSE d \in 1..10 : Digits[d] = c) - 1
             y == (N(s[1]) * 1000) + (N(s[2]) * 100) + (N(s[3]) * 10) + N(s[4])
             m == (N(s[6]) * 10) + N(s[7])
             d == (N(s[9]) * 10) + N(s[10])
             last == IF m = 2
                     THEN (IF y % 4 = 0 /\ (y % 100 # 0 \/ y % 400 = 0)
                           THEN 29 ELSE 28)
                     ELSE IF m \in { 4, 6, 9, 11 } THEN 30 ELSE 31 IN
         IF m \in 1..12 /\ d \in 1..last THEN << << y, m, d >> >> ELSE << >>
    ELSE << >>

Qualifies(r) ==
    CreationDate(r.created_at) # << >> /\ Before(CreationDate(r.created_at)[1], cutoff)

\* C18: for every raw list and cutoff the filter step returns exactly the
\* repositories created strictly before the cutoff (one created on the cutoff
\* date is left out), in ascending order of creation date, items with the
\* same creation date in their input order; an empty list gives an empty
\* list.
C18_FilterExactSorted ==
    (pc # "filter") =>
       /\ pc = "fetched"
       /\ \A i \in 1..Len(gh_repos) :
             Qualifies(gh_repos[i])
                <=> (\E j \in 1..Len(filtered) : filtered[j] = gh_repos[i])
       /\ Len(filtered) = Cardinality({ i \in 1..Len(gh_repos) : Qualifies(gh_repos[i]) })
       /\ \A i, j \in 1..Len(filtered) :
             i < j =>
                /\ ~ Before(CreationDate(filtered[j].created_at)[1],
                            CreationDate(filtered[i].created_at)[1])
                /\ (filtered[i].created_at = filtered[j].created_at)
                      => (filtered[i].name < filtered[j].name)
       /\ (gh_repos = << >>) => (filtered = << >>)

\* C19: a repository whose createdAt cannot be parsed as a date (shorter than
\* 10 characters, or a malformed YYYY-MM-DD prefix) is left out of the
\* filtered list, and the filter completes for the other repositories
\* without a panic.
C19_UnparsableIsExcluded ==
    (pc # "filter") =>
       /\ pc # "filter_panicked"
       /\ \A j \in 1..Len(filtered) : CreationDate(filtered[j].created_at) # << >>
       /\ \A i \in 1..Len(gh_repos) :
             Qualifies(gh_repos[i])
                => (\E j \in 1..Len(filtered) : filtered[j] = gh_repos[i])

\* C21: in every reachable state a row whose status is not Idle is selected,
\* and while the mode is Selecting or ConfirmModal every row is Idle; a row
\* that is not selected when a step leaves the mode outside Selecting stays
\* unselected and Idle, so a row that was not selected when the batch was
\* confirmed stays Idle for the whole session.
C21_NonIdleIsSelected ==
    /\ [](/\ \A i \in DOMAIN statuses : (statuses[i] # << "Idle" >>) => selected[i]
          /\ (mode \in { "Selecting", "ConfirmModal" })
                => (\A i \in DOMAIN statuses : statuses[i] = << "Idle" >>))
    /\ [][ \A i \in DOMAIN statuses :
              (~ selected[i] /\ mode' # "Selecting")
                 => (~ selected'[i] /\ statuses'[i] = << "Idle" >>) ]_vars

C21_Witness ==
    /\ mode = "Archiving"
    /\ \E i \in DOMAIN statuses : statuses[i][1] = "Archiving"
    /\ \E j \in DOMAIN statuses : ~ selected[j] /\ statuses[j] = << "Idle" >>
    /\ \E k \in DOMAIN statuses : statuses[k][1] \in { "Done", "Failed" }

\* C22: in every reachable state at most one row has status Archiving,
\* however the thread's sends interleave with the loop's drain passes.
C22_AtMostOneArchiving ==
    Cardinality({ i \in DOMAIN statuses : statuses[i][1] = "Archiving" }) <= 1

\* The thread is ahead of the loop: the row shown as Archiving has its result
\* queued, followed by the Started event of the next row.
C22_Witness ==
    /\ Len(chan) >= 2
    /\ chan[1][1] \in { "Done", "Failed" }
    /\ chan[2][1] = "Started"
    /\ statuses[chan[1][2]][1] = "Archiving"
    /\ statuses[chan[2][2]][1] = "Pending"

\* C23: once the mode is Done the channel holds no event that was not
\* received and no thread sends one later (each thread is past its last
\* send), so no step changes a status while the mode is Done.
C23_NothingAfterDone ==
    /\ []((mode = "Done") =>
             /\ chan = << >>
             /\ \A w \in 1..Len(workers) :
                   \/ workers[w].at = "exit"
                   \/ workers[w].at = "sleep" /\ workers[w].k = Len(workers[w].list))
    /\ [][ (mode = "Done") => (statuses' = statuses /\ chan' = << >> /\ mode' = "Done") ]_vars

\* The mode is Done while the thread has not ended yet, and the loop makes
\* another drain pass.
C23_Witness ==
    /\ mode = "Done"
    /\ pc = "drain"
    /\ \E w \in 1..Len(workers) : workers[w].at = "sleep"
    /\ Len(received) >= 4

====
